---- MODULE Spec2Model ----
(***************************************************************************)
(* Suggestion lifecycle, attribution ledger and persona-feedback comments  *)
(* of the Plotania writing assistant (my-frontend/src/App.tsx).            *)
(*                                                                         *)
(* The React component is modelled at the granularity of its handlers:     *)
(* every synchronous handler, and every stretch of an async handler        *)
(* between two awaits, is one action.  The state after an action is the    *)
(* state React has committed once the handler's batched setState calls     *)
(* have been rendered.                                                     *)
(*                                                                         *)
(* The TipTap/ProseMirror editor is an external collaborator.  It is       *)
(* modelled as one text block: `doc` is the sequence of its characters,    *)
(* cursor positions are 1..Len(doc)+1, doc.content.size is Len(doc)+2      *)
(* and resolving a position beyond content.size raises a RangeError.       *)
(* A document of several paragraphs, which only the payload builder's      *)
(* context needs, holds the tokens "</p>" and "<p>" between the characters *)
(* of two paragraphs, one position each as in ProseMirror.                 *)
(* The selection belongs to the editor and moves without App being told:   *)
(* a handler that reads editor.state.selection takes it as an input, any   *)
(* text selection of the current document.                                 *)
(* Page chrome (editorText, workingText, showAIOrigins) is left out: no    *)
(* handler reads it except to log it.  The save status and the title are   *)
(* followed in NextSave.                                                   *)
(***************************************************************************)
EXTENDS Integers, Sequences, FiniteSets, TLC

VARIABLES
    editorInstance,        \* App.tsx:120  TRUE once onEditorReady has run
    doc,                   \* the editor's text block
    loadingAction,         \* App.tsx:118
    aiSuggestion,          \* App.tsx:119
    improveText,           \* App.tsx:114  which message is shown
    humanChars,            \* App.tsx:137
    aiChars,               \* App.tsx:138
    inflight,              \* callBackend invocations suspended at await fetch
    nextReq,               \* number of transform requests sent so far + 1
    personaComments,       \* App.tsx:127
    personaLoadingId,      \* App.tsx:128
    lastFeedbackSelection, \* App.tsx:132
    fbInflight,            \* handleGetFeedback invocations suspended at await
    nextFb,                \* number of feedback requests sent so far + 1
    nextGen,               \* number of ids generated so far + 1
    capturedRange,         \* for every comment, the feedbackFrom/feedbackTo of
                           \* the handleGetFeedback call that produced it
    emitted,               \* events passed to logEvent by the last handler
    sessionId,             \* the session id logging.ts has cached, 0 for none
    logCalls,              \* logEvent calls suspended at an await, by the
                           \* fetch they wait for; the sessions the server
                           \* has created and the ids that posted events
                           \* carry
    applied,               \* the suggestions applied so far: the request
                           \* each came from and its length
    sessions,              \* server/index.js: the ids of the Session rows
    logEvents,             \* the LogEvent rows
    handling,              \* POST /api/log requests between the upsert of
                           \* the session and the creation of the event
    nextSrv,               \* number of requests the server has taken + 1
    saveStatus,            \* App.tsx:123
    saveTimers,            \* timeouts of handleManualSave yet to fire
    docTitle,              \* App.tsx:122
    effectDue,             \* App has rendered with a new onChange and the
                           \* effect of EditorWithToolbar has yet to run
    lastOp                 \* which handler ran last, how it ended, and the
                           \* state it started from

vars == <<editorInstance, doc, loadingAction, aiSuggestion,
          improveText, humanChars, aiChars, inflight, nextReq,
          personaComments, personaLoadingId, lastFeedbackSelection,
          fbInflight, nextFb, nextGen, capturedRange, emitted, sessionId,
          logCalls, applied, sessions, logEvents, handling, nextSrv,
          saveStatus, saveTimers, docTitle, effectDue, lastOp>>

transformVars == <<loadingAction, aiSuggestion, inflight, nextReq>>
ledgerVars    == <<humanChars, aiChars, applied>>
feedbackVars  == <<personaComments, personaLoadingId, lastFeedbackSelection,
                   fbInflight, nextFb, nextGen, capturedRange>>
editorVars    == <<editorInstance, doc>>
sinkVars      == <<sessionId, logCalls>>
serverVars    == <<sessions, logEvents, handling, nextSrv>>
saveVars      == <<saveStatus, saveTimers, docTitle, effectDue>>

----------------------------------------------------------------------------
(* Bounds *)

MaxDocLen == 2
MaxRequests == 2
MaxFeedbackRequests == 2
MaxBatch == 1
\* most feedback requests of the persona-buttons specification
MaxPersonaRequests == 3
\* longest text of the ledger specification
MaxTotal == 8
\* most logEvent calls suspended at one time
MaxLogCalls == 4
\* most paragraphs of a pasted document
MaxBlocks == 5
\* most requests the server takes
MaxServerRequests == 4
\* number of distinct session ids
MaxSessionIds == 2
\* most timeouts of handleManualSave pending at one time
MaxSaveTimers == 2

----------------------------------------------------------------------------
(* Values *)

NULL == [null |-> TRUE]

ActionMode == {"rewrite", "expand", "shorten", "tone"}

PersonaId == {"ruthless_reviewer", "emotional_reader", "stylistic_mentor"}

PersonaCommentStatus == {"open", "resolved", "hidden"}

\* what the writer can type: a letter or a blank
TypedChars == {"a", " "}

\* the letters among them
Letters == {"a"}

\* the action-bar buttons clicked in the runs explored; callBackend treats
\* every mode alike
ClickedModes == {"rewrite", "expand"}

\* the persona buttons clicked in the runs explored; handleGetFeedback treats
\* every persona alike
ClickedPersonas == {"ruthless_reviewer", "emotional_reader"}

\* the editor's initial content, "<p>Start writing your story here...</p>"
InitialDoc == <<"a">>

\* bodies the transform service can return in {result: ...}
ResultTexts == {<<>>, <<"b">>, <<"b", "b">>}

Max(a, b) == IF a >= b THEN a ELSE b

Min(a, b) == IF a <= b THEN a ELSE b

\* String.prototype.trim
RECURSIVE TrimLeft(_)
TrimLeft(s) ==
    IF s = <<>> THEN <<>>
    ELSE IF Head(s) \in {" ", "\n"} THEN TrimLeft(Tail(s)) ELSE s

RECURSIVE TrimRight(_)
TrimRight(s) ==
    IF s = <<>> THEN <<>>
    ELSE IF s[Len(s)] \in {" ", "\n"} THEN TrimRight(SubSeq(s, 1, Len(s) - 1))
    ELSE s

Trim(s) == TrimRight(TrimLeft(s))

\* a faulty variant: the test without trim()
IsEmptyString(s) == Len(s) = 0

\* !s || s.trim().length === 0
IsBlank(s) == Len(Trim(s)) = 0

----------------------------------------------------------------------------
(* The editor *)

\* a faulty variant: the number of characters for the size of the content
TextLength(d) == Len(d)

\* editor.state.doc.content.size
ContentSize(d) == Len(d) + 2

\* the text the token at position i gives, sep being the text put before a
\* block that is not the first one read from position from
TokenText(d, i, from, sep) ==
    IF d[i] = "</p>" THEN <<>>
    ELSE IF d[i] = "<p>" THEN (IF i > from THEN sep ELSE <<>>)
    ELSE <<d[i]>>

RECURSIVE TextOf(_, _, _, _, _)
TextOf(d, i, hi, from, sep) ==
    IF i > hi THEN <<>>
    ELSE TokenText(d, i, from, sep) \o TextOf(d, i + 1, hi, from, sep)

\* editor.state.doc.textBetween(from, to, "\n")
TextBetween(d, from, to) ==
    TextOf(d, Max(from, 1), Min(to - 1, Len(d)), from, <<"\n">>)

\* editor.getText(): TipTap's block separator is "\n\n"
GetText(d) == TextOf(d, 1, Len(d), 0, <<"\n", "\n">>)

\* the range [from, to) of d replaced by text
ReplaceRange(d, from, to, text) ==
    SubSeq(d, 1, from - 1) \o text \o SubSeq(d, to, Len(d))

\* minMax(pos, TextSelection.atStart(doc).from, TextSelection.atEnd(doc).to)
ClampPos(d, pos) == Min(Max(pos, 1), Len(d) + 1)

\* the positions inside a text block: every position but the one between
\* "</p>" and "<p>"
TextPositions(d) == {i \in 1..Len(d) + 1 : i <= Len(d) => d[i] # "<p>"}

\* the text selections of a document
Selections(d) ==
    {r \in [from : TextPositions(d), to : TextPositions(d)] : r.from <= r.to}

\* the document made of the text blocks blocks
RECURSIVE JoinBlocks(_)
JoinBlocks(blocks) ==
    IF Len(blocks) = 0 THEN <<>>
    ELSE IF Len(blocks) = 1 THEN blocks[1]
    ELSE blocks[1] \o <<"</p>", "<p>">> \o JoinBlocks(Tail(blocks))

----------------------------------------------------------------------------
(* Module A: build transform payload *)

\* fullText.split(/\n{2,}/): the index just past the run of "\n" starting at i
RECURSIVE RunEnd(_, _)
RunEnd(s, i) == IF i <= Len(s) /\ s[i] = "\n" THEN RunEnd(s, i + 1) ELSE i

\* a run of two or more "\n" separates two paragraphs
RECURSIVE SplitFrom(_, _, _)
SplitFrom(s, start, i) ==
    IF i > Len(s) THEN <<SubSeq(s, start, Len(s))>>
    ELSE IF s[i] = "\n" /\ RunEnd(s, i) - i >= 2
         THEN <<SubSeq(s, start, i - 1)>> \o SplitFrom(s, RunEnd(s, i), RunEnd(s, i))
         ELSE SplitFrom(s, start, i + 1)

Paragraphs(fullText) == SplitFrom(fullText, 1, 1)

\* String.prototype.includes
Includes(p, t) ==
    \E i \in 1..(Len(p) - Len(t) + 1) : SubSeq(p, i, i + Len(t) - 1) = t

\* a faulty variant: the last paragraph that includes the text
FindIndexLast(paragraphs, trimmedSel) ==
    LET hits == {i \in 1..Len(paragraphs) : Includes(paragraphs[i], trimmedSel)}
    IN  IF hits = {} THEN 0 ELSE CHOOSE i \in hits : \A j \in hits : i >= j

\* paragraphs.findIndex((p) => p.includes(trimmedSel)), 1-based, 0 for -1
FindIndex(paragraphs, trimmedSel) ==
    LET hits == {i \in 1..Len(paragraphs) : Includes(paragraphs[i], trimmedSel)}
    IN  IF hits = {} THEN 0 ELSE CHOOSE i \in hits : \A j \in hits : i <= j

\* a faulty variant: the selected text kept even when it is blank
SelectedTextKept(selected, fullText) == selected

\* if (!selectedText || selectedText.trim().length === 0) selectedText = fullText
SelectedText(selected, fullText) ==
    IF IsBlank(selected) THEN fullText ELSE selected

\* buildTransformPayload(mode), called with a ready editor
BuildTransformPayload(mode, d, sel) ==
    LET fullText     == TextBetween(d, 0, ContentSize(d))
        selected     == TextBetween(d, sel.from, sel.to)
        selectedText == SelectedText(selected, fullText)
        paragraphs   == Paragraphs(fullText)
        idx          == FindIndex(paragraphs, Trim(selectedText))
    IN  [action        |-> mode,
         selectedText  |-> selectedText,
         contextBefore |-> IF idx > 1 THEN paragraphs[idx - 1] ELSE <<>>,
         contextAfter  |-> IF idx # 0 /\ idx < Len(paragraphs)
                           THEN paragraphs[idx + 1] ELSE <<>>,
         from          |-> sel.from,
         to            |-> sel.to,
         fullText      |-> fullText]

----------------------------------------------------------------------------
(* Module C: attribution ledger *)

\* a faulty variant: the difference without Math.max(..., 0)
ReconcileHumanUnclamped(total, ai) == total - ai

\* handleDocumentChange: Math.max(total - aiChars, 0)
ReconcileHuman(total, ai) == Max(total - ai, 0)

\* Math.round of the quotient n / d of two naturals, d > 0, times 100
RoundPercent(n, d) == (200 * n + d) \div (2 * d)

totalChars == humanChars + aiChars

\* a faulty variant: Math.floor in place of Math.round
humanPercentFloored == IF totalChars = 0 THEN 0 ELSE (100 * humanChars) \div totalChars

humanPercent == IF totalChars = 0 THEN 0 ELSE RoundPercent(humanChars, totalChars)

\* a faulty variant: the AI share rounded on its own
aiPercentRounded == IF totalChars = 0 THEN 0 ELSE RoundPercent(aiChars, totalChars)

aiPercent == IF totalChars = 0 THEN 0 ELSE 100 - humanPercent

----------------------------------------------------------------------------
(* Initial state: App's first render, before the editor exists *)

\* the state a handler starts from, kept in lastOp for the next state to see
Before ==
    [doc                   |-> doc,
     humanChars            |-> humanChars,
     aiChars               |-> aiChars,
     aiSuggestion          |-> aiSuggestion,
     improveText           |-> improveText,
     loadingAction         |-> loadingAction,
     nextReq               |-> nextReq,
     personaComments       |-> personaComments,
     lastFeedbackSelection |-> lastFeedbackSelection,
     nextFb                |-> nextFb,
     saveStatus            |-> saveStatus]

\* rid: the request or comment handled; prior: what was pending when the
\* request handled was sent; sel: the selection the handler read, if it read
\* one; sent: the body of the request the handler sent, if it sent one;
\* selected: the selection the handler left in the editor, if it set one;
\* notified: handleDocumentChange was called from inside this handler, and
\* during: what it passed to setHumanChars
Op(op, outcome, rid) ==
    [op |-> op, outcome |-> outcome, rid |-> rid, prior |-> 0, sel |-> NULL,
     sent |-> NULL, selected |-> NULL, notified |-> FALSE, during |-> 0,
     pre |-> Before]

Init ==
    /\ editorInstance = FALSE
    /\ doc = <<>>
    /\ loadingAction = "null"
    /\ aiSuggestion = NULL
    /\ improveText = "initial"
    /\ humanChars = 0
    /\ aiChars = 0
    /\ inflight = {}
    /\ nextReq = 1
    /\ personaComments = <<>>
    /\ personaLoadingId = "null"
    /\ lastFeedbackSelection = NULL
    /\ fbInflight = {}
    /\ nextFb = 1
    /\ nextGen = 1
    /\ capturedRange = <<>>
    /\ emitted = <<>>
    /\ applied = <<>>
    /\ sessionId = 0
    /\ logCalls = [session |-> 0, post |-> 0, created |-> 0, carried |-> {}]
    /\ sessions = {}
    /\ logEvents = {}
    /\ handling = {}
    /\ nextSrv = 1
    /\ saveStatus = "saved"
    /\ saveTimers = 0
    /\ docTitle = "Untitled document"
    /\ effectDue = FALSE
    /\ lastOp = Op("init", "none", 0)

----------------------------------------------------------------------------
(* The editor's callbacks *)

\* EditorWithToolbar's effect: onEditorReady(editor), then onChange(initialText)
EditorReady ==
    /\ ~editorInstance
    /\ editorInstance' = TRUE
    /\ doc' = InitialDoc
    /\ humanChars' = ReconcileHuman(Len(GetText(doc')), aiChars)
    /\ emitted' = <<"editor_change">>
    /\ lastOp' = Op("editorReady", "ok", 0)
    /\ UNCHANGED <<aiChars, applied, improveText, transformVars, feedbackVars>>

\* onUpdate -> onChange(text) -> handleDocumentChange(text), after the writer
\* has changed the text block to newDoc
DocumentChange(newDoc) ==
    /\ doc' = newDoc
    /\ humanChars' = ReconcileHuman(Len(GetText(newDoc)), aiChars)
    /\ emitted' = <<"editor_change">>
    /\ lastOp' = Op("documentChange", "ok", 0)
    /\ UNCHANGED <<editorInstance, aiChars, applied, improveText, transformVars,
                   feedbackVars>>

\* the writer types c over the selection sel
TypeChar(c, sel) ==
    /\ editorInstance
    /\ Len(doc) - (sel.to - sel.from) + 1 <= MaxDocLen
    /\ DocumentChange(ReplaceRange(doc, sel.from, sel.to, <<c>>))

\* the writer deletes the selection sel, or the character before the cursor
Backspace(sel) ==
    /\ editorInstance
    /\ \/ /\ sel.from < sel.to
          /\ DocumentChange(ReplaceRange(doc, sel.from, sel.to, <<>>))
       \/ /\ sel.from = sel.to
          /\ sel.from > 1
          /\ DocumentChange(ReplaceRange(doc, sel.from - 1, sel.from, <<>>))

\* the paragraphs the writer can paste, empty ones among them
BlockTexts == {<<>>, <<"a">>, <<"b">>, <<"a", "b">>}

\* the writer replaces the whole document by the paragraphs blocks
PasteBlocks(blocks) ==
    /\ editorInstance
    /\ DocumentChange(JoinBlocks(blocks))

\* the writer replaces the whole text by n letters (select all, paste)
PasteLetters(n) ==
    /\ editorInstance
    /\ DocumentChange([i \in 1..n |-> "a"])

----------------------------------------------------------------------------
(* Module A: transform call *)

\* how the fetch of /llm/transform and the reading of its body can end
TransformOutcomes == {"ok", "http_error", "network_error", "bad_json"}

\* the action-bar buttons: a button is disabled while loadingAction is its mode
CanClick(mode) == loadingAction # mode

\* a faulty variant: a payload is built whether or not the editor exists
PayloadNeverNull == FALSE

\* buildTransformPayload returns null: if (!editorInstance) return null
PayloadIsNull == ~editorInstance

\* what of the payload callBackend still reads after its await
Captured(payload) ==
    [selectedText |-> payload.selectedText,
     from         |-> payload.from,
     to           |-> payload.to]

\* the suggestion pending now, by the request that produced it; 0 for none
PendingRid == IF aiSuggestion = NULL THEN 0 ELSE aiSuggestion.rid

\* callBackend(mode) up to its return or its await fetch; rid numbers the
\* requests in the order they are sent, prior is the suggestion pending then,
\* read is the selection buildTransformPayload read
CallBackend(mode, sel) ==
    /\ CanClick(mode)
    /\ IF PayloadIsNull
       THEN /\ improveText' = "editor_not_ready"
            /\ loadingAction' = "null"
            /\ emitted' = <<"tool_click", "tool_error">>
            /\ lastOp' = Op("callBackend", "not_ready", 0)
            /\ UNCHANGED <<inflight, nextReq>>
       ELSE /\ nextReq <= MaxRequests
            /\ improveText' = "generating"
            /\ loadingAction' = mode
            /\ inflight' = inflight \cup
                   {[rid     |-> nextReq,
                     mode    |-> mode,
                     prior   |-> PendingRid,
                     read    |-> sel,
                     payload |-> Captured(BuildTransformPayload(mode, doc, sel))]}
            /\ nextReq' = nextReq + 1
            /\ emitted' = <<"tool_click", "tool_request">>
            /\ lastOp' = [Op("callBackend", "sent", nextReq) EXCEPT
                              !.sel = sel,
                              !.sent = BuildTransformPayload(mode, doc, sel)]
    /\ UNCHANGED <<aiSuggestion, editorVars, ledgerVars, feedbackVars>>

\* a faulty variant: the range is brought into the text as it is when the
\* response arrives
NewSuggestionRevalidated(r, aiText) ==
    [original   |-> r.payload.selectedText,
     suggestion |-> aiText,
     mode       |-> r.mode,
     from       |-> ClampPos(doc, r.payload.from),
     to         |-> ClampPos(doc, r.payload.to),
     rid        |-> r.rid,
     read       |-> r.read]

\* setAiSuggestion({original, suggestion, mode, from, to}); rid records which
\* request produced the suggestion and read the selection it had read
NewSuggestion(r, aiText) ==
    [original   |-> r.payload.selectedText,
     suggestion |-> aiText,
     mode       |-> r.mode,
     from       |-> r.payload.from,
     to         |-> r.payload.to,
     rid        |-> r.rid,
     read       |-> r.read]

\* a faulty variant: a suggestion is stored whatever the outcome
SuggestionStored(r, outcome, aiText) == NewSuggestion(r, aiText)

\* aiSuggestion once the response to r has been handled
SuggestionAfter(r, outcome, aiText) ==
    IF outcome = "ok" THEN NewSuggestion(r, aiText) ELSE aiSuggestion

\* finally { setLoadingAction(null) }
LoadingAfter(r) == "null"

\* callBackend from the return of await fetch to its end: the response is read,
\* then the try, catch and finally blocks run without another suspension
TransformResponse(r, outcome, aiText) ==
    /\ r \in inflight
    /\ inflight' = inflight \ {r}
    /\ loadingAction' = LoadingAfter(r)
    /\ aiSuggestion' = SuggestionAfter(r, outcome, aiText)
    /\ CASE outcome = "ok" ->
              /\ improveText' = IF aiText = <<>> THEN "no_output" ELSE "suggestion"
              /\ emitted' = <<"tool_response">>
         [] outcome = "http_error" ->
              \* !res.ok: logs tool_error, throws, and the catch logs again
              /\ improveText' = "backend_call_failed"
              /\ emitted' = <<"tool_error", "tool_error">>
         [] outcome \in {"network_error", "bad_json"} ->
              \* fetch rejects, or JSON.parse throws
              /\ improveText' = "backend_call_failed"
              /\ emitted' = <<"tool_error">>
    /\ lastOp' = [Op("transformResponse", outcome, r.rid) EXCEPT !.prior = r.prior]
    /\ UNCHANGED <<nextReq, editorVars, ledgerVars, feedbackVars>>

----------------------------------------------------------------------------
(* Accept / dismiss suggestion *)

\* tr.delete(from, to) resolves both positions unless the range is empty;
\* a position beyond doc.content.size raises a RangeError
RangeResolves(d, from, to) == from = to \/ to <= ContentSize(d)

\* deleteRange({from, to}), setTextSelection(from), insertContent(suggestion)
ReplaceWithSuggestion(d, from, to, suggestion) ==
    LET cut == ReplaceRange(d, Min(from, Len(d) + 1), Min(to, Len(d) + 1), <<>>)
        at  == ClampPos(cut, from)
    IN  ReplaceRange(cut, at, at, suggestion)

\* a faulty variant: the count set to the length of the last suggestion
NextAiReplaced(prevAi, suggestion) == Len(suggestion)

\* setAiChars((prevAi) => prevAi + suggestion.length)
NextAi(prevAi, suggestion) == prevAi + Len(suggestion)

\* transaction.docChanged: run() dispatched a transaction with a step, so the
\* editor emits update and onUpdate -> onChange -> handleDocumentChange run
\* inside run(), before handleAcceptSuggestion goes on
DocChanged(d, from, to, suggestion) ==
    \/ ReplaceRange(d, Min(from, Len(d) + 1), Min(to, Len(d) + 1), <<>>) # d
    \/ suggestion # <<>>

\* a faulty variant: the value handleDocumentChange set during run() stays
HumanFromNotification(total, prevAi, nextAi) == ReconcileHuman(total, prevAi)

\* setHumanChars(Math.max(total - nextAi, 0)) inside the updater; it is the
\* last value set, after the one handleDocumentChange set during run()
HumanAfterAccept(total, prevAi, nextAi) == ReconcileHuman(total, nextAi)

\* a faulty variant: the apply is not logged
AcceptEventsUnlogged(notified) ==
    IF notified THEN <<"editor_change">> ELSE <<>>

\* the events of an apply: editor_change from onChange when run() notified,
\* then accept_suggestion
AcceptEvents(notified) ==
    IF notified THEN <<"editor_change", "accept_suggestion">>
    ELSE <<"accept_suggestion">>

\* a faulty variant: the suggestion stays pending after the apply
AfterApplyKept(suggestion) == suggestion

\* setAiSuggestion(null) at the end of handleAcceptSuggestion
AfterApply(suggestion) == NULL

\* {aiSuggestion && (...)}: the panel with the Replace and Dismiss buttons
PanelShown == aiSuggestion # NULL

\* handleAcceptSuggestion, for texts of at most maxLen characters
AcceptSuggestion(maxLen) ==
    /\ IF aiSuggestion = NULL \/ ~editorInstance
       THEN \* if (!aiSuggestion || !editorInstance) return
            /\ emitted' = <<>>
            /\ lastOp' = Op("accept", "returned", 0)
            /\ UNCHANGED <<doc, aiSuggestion, improveText, ledgerVars>>
       ELSE IF ~RangeResolves(doc, aiSuggestion.from, aiSuggestion.to)
       THEN \* the chain throws before any state is set
            /\ emitted' = <<>>
            /\ lastOp' = [Op("accept", "range_error", aiSuggestion.rid) EXCEPT
                              !.sel = [from |-> aiSuggestion.from,
                                       to   |-> aiSuggestion.to]]
            /\ UNCHANGED <<doc, aiSuggestion, improveText, ledgerVars>>
       ELSE LET newDoc == ReplaceWithSuggestion(doc, aiSuggestion.from,
                                                aiSuggestion.to,
                                                aiSuggestion.suggestion)
                total  == Len(GetText(newDoc))
                nextAi == NextAi(aiChars, aiSuggestion.suggestion)
                notified == DocChanged(doc, aiSuggestion.from, aiSuggestion.to,
                                       aiSuggestion.suggestion)
            IN  /\ Len(newDoc) <= maxLen
                /\ doc' = newDoc
                /\ aiChars' = nextAi
                /\ humanChars' = HumanAfterAccept(total, aiChars, nextAi)
                /\ applied' = Append(applied,
                                     [rid    |-> aiSuggestion.rid,
                                      length |-> Len(aiSuggestion.suggestion)])
                /\ aiSuggestion' = AfterApply(aiSuggestion)
                /\ improveText' = "replacement_applied"
                /\ emitted' = AcceptEvents(notified)
                /\ lastOp' = [Op("accept", "ok", aiSuggestion.rid) EXCEPT
                                  !.sel = [from |-> aiSuggestion.from,
                                           to   |-> aiSuggestion.to],
                                  !.sent = [toolName |-> aiSuggestion.mode,
                                            originalLength |->
                                                Len(aiSuggestion.original),
                                            suggestionLength |->
                                                Len(aiSuggestion.suggestion)],
                                  !.notified = notified,
                                  !.during = IF notified
                                             THEN ReconcileHuman(total, aiChars)
                                             ELSE 0]
    /\ UNCHANGED <<editorInstance, loadingAction, inflight, nextReq, feedbackVars>>

HandleAcceptSuggestion == AcceptSuggestion(MaxDocLen)

\* a faulty variant: the dismissed suggestion is counted as AI text
DismissCountsSuggestion ==
    /\ aiChars' = IF aiSuggestion = NULL THEN aiChars
                  ELSE aiChars + Len(aiSuggestion.suggestion)
    /\ aiSuggestion' = NULL
    /\ improveText' = IF aiSuggestion # NULL THEN "select_again" ELSE improveText
    /\ emitted' = <<"dismiss_suggestion">>
    /\ lastOp' = Op("dismiss", "ok", PendingRid)
    /\ UNCHANGED <<loadingAction, inflight, nextReq, editorVars, humanChars, applied,
                   feedbackVars>>

\* handleDismissSuggestion: the messages are set only with a suggestion,
\* setAiSuggestion(null) and logEvent run in any case
HandleDismissSuggestion ==
    /\ aiSuggestion' = NULL
    /\ improveText' = IF aiSuggestion # NULL THEN "select_again" ELSE improveText
    /\ emitted' = <<"dismiss_suggestion">>
    /\ lastOp' = Op("dismiss", "ok", PendingRid)
    /\ UNCHANGED <<loadingAction, inflight, nextReq, editorVars, ledgerVars,
                   feedbackVars>>

----------------------------------------------------------------------------
(* Module B: persona feedback *)

ABSENT == "absent"

\* elements the feedback service can return: the prompt asks the model for an
\* "id" on every item, and the id it gives, if any, is taken as it is
RawComments ==
    {[id |-> ABSENT, excerpt |-> ABSENT, comment |-> ABSENT, suggestion |-> ABSENT],
     [id |-> "1", excerpt |-> "e", comment |-> "c", suggestion |-> "s"]}

\* arrays of at most MaxBatch elements
Batches == UNION {[1..n -> RawComments] : n \in 0..MaxBatch}

\* how the fetch of /llm/feedback and the reading of its body can end;
\* "not_array" is a success whose JSON body is no array
FeedbackOutcomes == {"ok", "not_array", "http_error", "network_error", "bad_json"}

\* x ?? ""
OrEmpty(x) == IF x = ABSENT THEN "" ELSE x

\* `${personaId}-${Math.random().toString(36).slice(2)}`: the k-th id generated;
\* two draws of Math.random are taken to differ
GeneratedId(personaId, k) == <<personaId, k>>

\* c.id ?? generated
CommentId(c, personaId, k) ==
    IF c.id = ABSENT THEN GeneratedId(personaId, k) ELSE <<c.id>>

\* how many elements before the i-th have no id
AbsentBefore(commentsRaw, i) ==
    Cardinality({j \in 1..(i - 1) : commentsRaw[j].id = ABSENT})

\* commentsRaw.map((c) => ({id: c.id ?? generated, persona, ..., status: "open"}))
NormalizeComments(commentsRaw, personaId, gen) ==
    [i \in 1..Len(commentsRaw) |->
        [id         |-> CommentId(commentsRaw[i], personaId,
                                  gen + AbsentBefore(commentsRaw, i)),
         persona    |-> personaId,
         excerpt    |-> OrEmpty(commentsRaw[i].excerpt),
         comment    |-> OrEmpty(commentsRaw[i].comment),
         suggestion |-> OrEmpty(commentsRaw[i].suggestion),
         status     |-> "open"]]

\* the persona buttons: disabled while personaLoadingId is that persona
CanGetFeedback(personaId) == personaLoadingId # personaId

\* handleGetFeedback(personaId) up to its return or its await fetch, in runs
\* of at most maxRequests requests
GetFeedback(personaId, sel, maxRequests) ==
    /\ CanGetFeedback(personaId)
    /\ IF ~editorInstance
       THEN /\ emitted' = <<>>
            /\ lastOp' = Op("getFeedback", "not_ready", 0)
            /\ UNCHANGED <<improveText, feedbackVars>>
       ELSE LET fullSize == ContentSize(doc)
                selected == TextBetween(doc, sel.from, sel.to)
                fallback == IsBlank(selected)
                selectedPassage == IF fallback
                                   THEN TextBetween(doc, 0, fullSize)
                                   ELSE selected
                feedbackFrom == IF fallback THEN 1 ELSE sel.from
                feedbackTo   == IF fallback THEN fullSize ELSE sel.to
            IN  IF IsBlank(selectedPassage)
                THEN /\ improveText' = "write_something_first"
                     /\ emitted' = <<"persona_click_get_feedback",
                                     "persona_feedback_error">>
                     /\ lastOp' = [Op("getFeedback", "empty_text", 0)
                                     EXCEPT !.sel = sel]
                     /\ UNCHANGED feedbackVars
                ELSE /\ nextFb <= maxRequests
                     /\ lastFeedbackSelection' = [from |-> feedbackFrom,
                                                  to   |-> feedbackTo]
                     /\ personaLoadingId' = personaId
                     /\ fbInflight' = fbInflight \cup
                            {[rid     |-> nextFb,
                              persona |-> personaId,
                              range   |-> [from |-> feedbackFrom,
                                           to   |-> feedbackTo]]}
                     /\ nextFb' = nextFb + 1
                     /\ emitted' = <<"persona_click_get_feedback",
                                     "persona_feedback_request">>
                     /\ lastOp' = [Op("getFeedback", "sent", nextFb)
                                     EXCEPT !.sel = sel,
                                            !.sent = [persona |-> personaId,
                                                      text |-> Trim(selectedPassage)]]
                     /\ UNCHANGED <<improveText, personaComments, nextGen,
                                    capturedRange>>
    /\ UNCHANGED <<editorVars, ledgerVars, transformVars>>

HandleGetFeedback(personaId, sel) ==
    GetFeedback(personaId, sel, MaxFeedbackRequests)

\* a faulty variant: a body that is no array taken as an array of one element
CommentsRawWrapped(outcome, batch) ==
    IF outcome = "ok" THEN batch
    ELSE <<[id |-> ABSENT, excerpt |-> ABSENT, comment |-> ABSENT,
            suggestion |-> ABSENT]>>

\* const commentsRaw = Array.isArray(data) ? data : []
CommentsRaw(outcome, batch) == IF outcome = "ok" THEN batch ELSE <<>>

\* a faulty variant: a comment whose id is in the collection is left out
AppendDeduplicated(prev, comments) ==
    prev \o SelectSeq(comments,
                      LAMBDA c : \A i \in 1..Len(prev) : prev[i].id # c.id)

\* a faulty variant: the new batch takes the place of the collection
ReplaceComments(prev, comments) == comments

\* setPersonaComments((prev) => [...prev, ...comments])
AppendComments(prev, comments) == prev \o comments

\* handleGetFeedback from the return of await fetch to its end
FeedbackResponse(r, outcome, batch) ==
    /\ r \in fbInflight
    /\ fbInflight' = fbInflight \ {r}
    /\ personaLoadingId' = "null"
    /\ CASE outcome \in {"ok", "not_array"} ->
              LET commentsRaw == CommentsRaw(outcome, batch)
                  comments == NormalizeComments(commentsRaw, r.persona, nextGen)
              IN  /\ personaComments' = AppendComments(personaComments, comments)
                  /\ nextGen' = nextGen + AbsentBefore(commentsRaw, Len(commentsRaw) + 1)
                  /\ capturedRange' = capturedRange \o
                         [i \in 1..Len(comments) |-> r.range]
                  /\ emitted' = <<"persona_feedback_success",
                                  "persona_feedback_received">>
         [] outcome \in {"http_error", "network_error", "bad_json"} ->
              /\ emitted' = <<"persona_feedback_error">>
              /\ UNCHANGED <<personaComments, nextGen, capturedRange>>
    /\ lastOp' = [Op("feedbackResponse", outcome, r.rid) EXCEPT
                      !.sent = [persona |-> r.persona, batch |-> batch]]
    /\ UNCHANGED <<lastFeedbackSelection, nextFb, improveText, editorVars,
                   ledgerVars, transformVars>>

\* the comment cards: hidden comments are not rendered
Shown(i) == personaComments[i].status # "hidden"

\* setPersonaComments((prev) => prev.map((c) => c.id === id ? {...c, status} : c))
SetStatus(prev, id, status) ==
    [i \in 1..Len(prev) |->
        IF prev[i].id = id THEN [prev[i] EXCEPT !.status = status] ELSE prev[i]]

\* handleResolveComment; "Mark resolved" exists only on a shown, open comment
HandleResolveComment(i) ==
    /\ i \in 1..Len(personaComments)
    /\ Shown(i)
    /\ personaComments[i].status = "open"
    /\ personaComments' = SetStatus(personaComments, personaComments[i].id, "resolved")
    /\ emitted' = <<"persona_mark_resolved">>
    /\ lastOp' = Op("resolve", "ok", i)
    /\ UNCHANGED <<personaLoadingId, lastFeedbackSelection, fbInflight, nextFb,
                   nextGen, capturedRange, improveText, editorVars, ledgerVars,
                   transformVars>>

\* handleHideComment; "Hide" exists on every shown comment
HandleHideComment(i) ==
    /\ i \in 1..Len(personaComments)
    /\ Shown(i)
    /\ personaComments' = SetStatus(personaComments, personaComments[i].id, "hidden")
    /\ emitted' = <<"persona_hide_comment">>
    /\ lastOp' = Op("hide", "ok", i)
    /\ UNCHANGED <<personaLoadingId, lastFeedbackSelection, fbInflight, nextFb,
                   nextGen, capturedRange, improveText, editorVars, ledgerVars,
                   transformVars>>

\* a faulty variant: the remembered range selected as it is
SetTextSelectionUnclamped(d, range) == range

\* setTextSelection({from, to}): both ends are brought between the start and
\* the end of the text before the selection is made
SetTextSelection(d, range) ==
    [from |-> ClampPos(d, range.from), to |-> ClampPos(d, range.to)]

\* a faulty variant: the click also drops the pending suggestion
ExcerptClickDismisses(i) ==
    /\ aiSuggestion' = NULL
    /\ emitted' = <<"persona_highlight_excerpt">>
    /\ lastOp' = Op("excerptClick", "selected", i)
    /\ UNCHANGED <<editorInstance, doc, improveText, ledgerVars, loadingAction,
                   inflight, nextReq, feedbackVars>>

\* handleExcerptClick(personaId, commentId), i being the comment clicked or 0:
\* setTextSelection({from, to}) with the remembered range
ExcerptClick(i) ==
    /\ IF ~editorInstance \/ lastFeedbackSelection = NULL
       THEN \* if (!editorInstance || !lastFeedbackSelection) return
            /\ emitted' = <<>>
            /\ lastOp' = Op("excerptClick", "none", i)
       ELSE /\ emitted' = <<"persona_highlight_excerpt">>
            /\ lastOp' = [Op("excerptClick", "selected", i)
                            EXCEPT !.sel = lastFeedbackSelection,
                                   !.selected = SetTextSelection(
                                                    doc, lastFeedbackSelection)]
    /\ UNCHANGED <<editorInstance, doc, improveText, ledgerVars, transformVars,
                   feedbackVars>>

\* the excerpt of a comment card is clicked; hidden comments have no card
HandleExcerptClick(i) ==
    /\ i \in 1..Len(personaComments)
    /\ Shown(i)
    /\ ExcerptClick(i)

----------------------------------------------------------------------------
(* The event sink: logging.ts *)

\* how the fetch of /api/session/start and the reading of its body can end;
\* missing_id is a body without sessionId
SessionOutcomes == {"ok", "http_error", "network_error", "bad_json", "missing_id"}

\* how the fetch of /api/log can end; its status is not looked at
LogOutcomes == {"ok", "http_error", "network_error"}

\* a faulty variant: what the try block throws reaches the caller
SettlesRethrown(thrown) == IF thrown THEN "rejected" ELSE "resolved"

\* how the promise of logEvent settles: catch (err) { console.warn(...) }
Settles(thrown) == "resolved"

\* the handler that just ran called logEvent once for every event in emitted':
\* each call runs up to its first fetch, of /api/session/start when no session
\* id is cached, of /api/log when one is; the handler does not await it
LogEmitted ==
    /\ logCalls.session + logCalls.post + Len(emitted') <= MaxLogCalls
    /\ logCalls' = IF sessionId = 0
                   THEN [logCalls EXCEPT !.session = @ + Len(emitted')]
                   ELSE [logCalls EXCEPT
                            !.post = @ + Len(emitted'),
                            !.carried = IF emitted' = <<>> THEN @
                                        ELSE @ \cup {sessionId}]
    /\ UNCHANGED sessionId

\* App's first effect: logEvent(session_start), logEvent(page_view)
BootEffect ==
    /\ lastOp.op = "init"
    /\ emitted' = <<"session_start", "page_view">>
    /\ lastOp' = Op("boot", "ok", 0)
    /\ UNCHANGED <<transformVars, improveText, editorVars, ledgerVars, feedbackVars>>

\* ensureSessionId from the return of its fetch: a response that is ok and
\* carries a sessionId is cached and logEvent goes on to post the event with
\* that id, any other outcome throws into logEvent's catch block.  The server
\* answers every session start it serves with the id of a row it has just
\* created, so the n-th answer carries the id n
SessionStartResponse(outcome) ==
    /\ logCalls.session > 0
    /\ IF outcome = "ok"
       THEN /\ sessionId' = logCalls.created + 1
            /\ logCalls' = [session |-> logCalls.session - 1,
                            post    |-> logCalls.post + 1,
                            created |-> logCalls.created + 1,
                            carried |-> logCalls.carried \cup
                                            {logCalls.created + 1}]
            /\ lastOp' = [Op("logEvent", "posting", 0) EXCEPT !.sent = outcome]
       ELSE /\ logCalls' = [logCalls EXCEPT !.session = @ - 1]
            /\ lastOp' = [Op("logEvent", Settles(TRUE), 0) EXCEPT !.sent = outcome]
            /\ UNCHANGED sessionId
    /\ UNCHANGED <<transformVars, improveText, editorVars, ledgerVars, feedbackVars,
                   emitted>>

\* logEvent from the return of its fetch of /api/log: a rejected fetch throws
\* into the catch block, a response of any status ends the call
LogPostResponse(outcome) ==
    /\ logCalls.post > 0
    /\ logCalls' = [logCalls EXCEPT !.post = @ - 1]
    /\ lastOp' = [Op("logEvent", Settles(outcome = "network_error"), 0) EXCEPT
                      !.sent = outcome]
    /\ UNCHANGED <<sessionId, transformVars, improveText, editorVars, ledgerVars,
                   feedbackVars, emitted>>

----------------------------------------------------------------------------
(* The server's session and log routes: server/index.js.  Its database is   *)
(* the Session and LogEvent tables; the last migration leaves LogEvent      *)
(* without foreign keys, so the tables hold whatever the routes write.      *)

\* the session ids of requests and rows; 0 stands for a body without one
SessionIds == 1..MaxSessionIds

\* the eventType of a request body, "" when it has none
EventTypes == {"", "page_view"}

\* the bodies POST /api/log is sent
LogBodies == [sessionId : {0} \cup SessionIds, eventType : EventTypes]

\* how a call of the database client can end
DbOutcomes == {"ok", "db_error"}

\* what the tables held when a route began
Stored == [sessions |-> sessions, logEvents |-> logEvents, handling |-> handling]

\* a faulty variant: the log route does not touch the Session table
UpsertedNothing(rows, id) == rows

\* prisma.session.upsert({ where: { id }, update: {}, create: { id } })
Upserted(rows, id) == rows \cup {id}

\* POST /api/session/start: a row with a fresh id is created and the id is
\* returned; a failing create answers 500
SessionStart(outcome) ==
    /\ nextSrv <= MaxServerRequests
    /\ nextSrv' = nextSrv + 1
    /\ IF outcome = "ok"
       THEN \E id \in SessionIds \ sessions :
                /\ sessions' = sessions \cup {id}
                /\ lastOp' = [Op("sessionStart", "200", nextSrv) EXCEPT
                                  !.sent = [body |-> NULL, stored |-> Stored,
                                            sessionId |-> id]]
       ELSE /\ lastOp' = [Op("sessionStart", "500", nextSrv) EXCEPT
                              !.sent = [body |-> NULL, stored |-> Stored]]
            /\ UNCHANGED sessions
    /\ UNCHANGED <<logEvents, handling, transformVars, improveText, editorVars,
                   ledgerVars, feedbackVars, emitted, sinkVars, saveVars>>

\* POST /api/log up to the return of the upsert: a body without sessionId or
\* eventType is answered 400, a failing upsert 500
PostLog(body, outcome) ==
    /\ nextSrv <= MaxServerRequests
    /\ nextSrv' = nextSrv + 1
    /\ IF body.sessionId = 0 \/ body.eventType = ""
       THEN /\ lastOp' = [Op("postLog", "400", nextSrv) EXCEPT
                              !.sent = [body |-> body, stored |-> Stored]]
            /\ UNCHANGED <<sessions, handling>>
       ELSE IF outcome = "ok"
       THEN /\ sessions' = Upserted(sessions, body.sessionId)
            /\ handling' = handling \cup
                               {[rid |-> nextSrv, sessionId |-> body.sessionId,
                                 eventType |-> body.eventType]}
            /\ lastOp' = [Op("postLog", "upserted", nextSrv) EXCEPT
                              !.sent = [body |-> body, stored |-> Stored]]
       ELSE /\ lastOp' = [Op("postLog", "500", nextSrv) EXCEPT
                              !.sent = [body |-> body, stored |-> Stored]]
            /\ UNCHANGED <<sessions, handling>>
    /\ UNCHANGED <<logEvents, transformVars, improveText, editorVars,
                   ledgerVars, feedbackVars, emitted, sinkVars, saveVars>>

\* POST /api/log from the return of the upsert: the event is created and
\* answered with its id; a failing create answers 500
CreateLog(r, outcome) ==
    /\ r \in handling
    /\ handling' = handling \ {r}
    /\ IF outcome = "ok"
       THEN /\ logEvents' = logEvents \cup
                                {[id |-> r.rid, sessionId |-> r.sessionId,
                                  eventType |-> r.eventType]}
            /\ lastOp' = [Op("createLog", "200", r.rid) EXCEPT
                              !.sent = [body |-> [sessionId |-> r.sessionId,
                                                  eventType |-> r.eventType],
                                        stored |-> Stored]]
       ELSE /\ lastOp' = [Op("createLog", "500", r.rid) EXCEPT
                              !.sent = [body |-> [sessionId |-> r.sessionId,
                                                  eventType |-> r.eventType],
                                        stored |-> Stored]]
            /\ UNCHANGED logEvents
    /\ UNCHANGED <<sessions, nextSrv, transformVars, improveText, editorVars,
                   ledgerVars, feedbackVars, emitted, sinkVars, saveVars>>

----------------------------------------------------------------------------
(* The save status: App.tsx and the effect of EditorWithToolbar.tsx.  App   *)
(* passes onChange as an inline function, a new one at every render, and    *)
(* the effect lists onChange among its dependencies, so the effect runs     *)
(* again after every render of App.                                         *)

\* the titles the writer gives the document
Titles == {"Untitled document", "t"}

\* onChange's setSaveStatus("editing"), which makes App render again
StatusEdited ==
    /\ saveStatus' = "editing"
    /\ effectDue' = TRUE
    /\ UNCHANGED <<saveTimers, docTitle>>

\* the title input's onChange
TitleChange(title) ==
    /\ title # docTitle
    /\ docTitle' = title
    /\ saveStatus' = "editing"
    /\ effectDue' = TRUE
    /\ emitted' = <<"title_change">>
    /\ lastOp' = Op("titleChange", "ok", 0)
    /\ UNCHANGED <<saveTimers, transformVars, improveText, editorVars, ledgerVars,
                   feedbackVars, sinkVars, serverVars>>

\* handleManualSave: the status is set, the click is logged and a timeout of
\* 500 ms is started; nothing cancels a timeout
HandleManualSave ==
    /\ saveTimers < MaxSaveTimers
    /\ saveStatus' = "saving"
    /\ saveTimers' = saveTimers + 1
    /\ effectDue' = TRUE
    /\ emitted' = <<"save_click">>
    /\ lastOp' = Op("manualSave", "ok", 0)
    /\ UNCHANGED <<docTitle, transformVars, improveText, editorVars, ledgerVars,
                   feedbackVars, sinkVars, serverVars>>

\* the callback of a timeout of handleManualSave
SaveTimeout ==
    /\ saveTimers > 0
    /\ saveTimers' = saveTimers - 1
    /\ saveStatus' = "saved"
    /\ effectDue' = TRUE
    /\ emitted' = <<>>
    /\ lastOp' = Op("saveTimeout", "ok", 0)
    /\ UNCHANGED <<docTitle, transformVars, improveText, editorVars, ledgerVars,
                   feedbackVars, sinkVars, serverVars>>

\* the effect of EditorWithToolbar after a render of App that was not its
\* own doing: onEditorReady(editor), then onChange(editor.getText()), which
\* sets the status, reconciles the ledger and logs editor_change.  App
\* renders again when that changed its state
EffectRerun ==
    /\ effectDue
    /\ IF ~editorInstance
       THEN \* if (!editor) return
            /\ effectDue' = FALSE
            /\ emitted' = <<>>
            /\ lastOp' = Op("effect", "returned", 0)
            /\ UNCHANGED <<saveStatus, humanChars>>
       ELSE /\ saveStatus' = "editing"
            /\ humanChars' = ReconcileHuman(Len(GetText(doc)), aiChars)
            /\ effectDue' = (saveStatus # "editing" \/ humanChars' # humanChars)
            /\ emitted' = <<"editor_change">>
            /\ lastOp' = Op("effect", "ok", 0)
    /\ UNCHANGED <<saveTimers, docTitle, aiChars, applied, transformVars,
                   improveText, editorVars, feedbackVars, sinkVars, serverVars>>

----------------------------------------------------------------------------
(* Specifications.  The calls of logEvent are followed in NextSink; the     *)
(* other specifications leave them at `emitted`.                            *)

\* the writer edits the text, typing characters of chars
Edit(chars) ==
    \/ \E c \in chars, sel \in Selections(doc) : TypeChar(c, sel)
    \/ \E sel \in Selections(doc) : Backspace(sel)

\* the suggestion lifecycle and the attribution ledger
Next ==
    \/ /\ EditorReady
       /\ UNCHANGED <<sinkVars, serverVars, saveVars>>
    \/ /\ Edit(Letters)
       /\ UNCHANGED <<sinkVars, serverVars, saveVars>>
    \/ /\ \E mode \in ClickedModes, sel \in Selections(doc) : CallBackend(mode, sel)
       /\ UNCHANGED <<sinkVars, serverVars, saveVars>>
    \/ /\ \E r \in inflight, outcome \in TransformOutcomes, aiText \in ResultTexts :
              /\ outcome # "ok" => aiText = <<>>
              /\ TransformResponse(r, outcome, aiText)
       /\ UNCHANGED <<sinkVars, serverVars, saveVars>>
    \/ /\ PanelShown /\ HandleAcceptSuggestion
       /\ UNCHANGED <<sinkVars, serverVars, saveVars>>
    \/ /\ PanelShown /\ HandleDismissSuggestion
       /\ UNCHANGED <<sinkVars, serverVars, saveVars>>

Spec == Init /\ [][Next]_vars

\* the persona-feedback comment lifecycle
NextFeedback ==
    \/ /\ EditorReady
       /\ UNCHANGED <<sinkVars, serverVars, saveVars>>
    \/ /\ Edit(Letters)
       /\ UNCHANGED <<sinkVars, serverVars, saveVars>>
    \/ /\ \E personaId \in ClickedPersonas, sel \in Selections(doc) :
              HandleGetFeedback(personaId, sel)
       /\ UNCHANGED <<sinkVars, serverVars, saveVars>>
    \/ /\ \E r \in fbInflight, outcome \in FeedbackOutcomes, batch \in Batches :
              /\ outcome # "ok" => batch = <<>>
              /\ FeedbackResponse(r, outcome, batch)
       /\ UNCHANGED <<sinkVars, serverVars, saveVars>>
    \/ /\ \E i \in 1..Len(personaComments) : HandleResolveComment(i)
       /\ UNCHANGED <<sinkVars, serverVars, saveVars>>
    \/ /\ \E i \in 1..Len(personaComments) : HandleHideComment(i)
       /\ UNCHANGED <<sinkVars, serverVars, saveVars>>
    \/ /\ \E i \in 1..Len(personaComments) : HandleExcerptClick(i)
       /\ UNCHANGED <<sinkVars, serverVars, saveVars>>

SpecFeedback == Init /\ [][NextFeedback]_vars

\* the passage of a feedback request, over texts with blanks, and
\* handleExcerptClick called in any state, comment or no comment
NextPassage ==
    \/ /\ EditorReady
       /\ UNCHANGED <<sinkVars, serverVars, saveVars>>
    \/ /\ Edit(TypedChars)
       /\ UNCHANGED <<sinkVars, serverVars, saveVars>>
    \/ /\ \E sel \in Selections(doc) : HandleGetFeedback("ruthless_reviewer", sel)
       /\ UNCHANGED <<sinkVars, serverVars, saveVars>>
    \/ /\ \E r \in fbInflight, outcome \in FeedbackOutcomes, batch \in Batches :
              /\ outcome # "ok" => batch = <<>>
              /\ FeedbackResponse(r, outcome, batch)
       /\ UNCHANGED <<sinkVars, serverVars, saveVars>>
    \/ /\ ExcerptClick(0)
       /\ UNCHANGED <<sinkVars, serverVars, saveVars>>

SpecPassage == Init /\ [][NextPassage]_vars

\* selections of the ledger specification: the cursor at the end, or everything
LedgerSelections(d) ==
    {[from |-> Len(d) + 1, to |-> Len(d) + 1], [from |-> 1, to |-> Len(d) + 1]}

\* the attribution ledger over longer texts: the writer rewrites the text,
\* asks for one suggestion at a time, and applies it
NextLedger ==
    \/ /\ EditorReady
       /\ UNCHANGED <<sinkVars, serverVars, saveVars>>
    \/ /\ \E n \in 0..MaxTotal : PasteLetters(n)
       /\ UNCHANGED <<sinkVars, serverVars, saveVars>>
    \/ /\ \E sel \in LedgerSelections(doc) :
              /\ inflight = {}
              /\ aiSuggestion = NULL
              /\ CallBackend("rewrite", sel)
       /\ UNCHANGED <<sinkVars, serverVars, saveVars>>
    \/ /\ \E r \in inflight, aiText \in ResultTexts : TransformResponse(r, "ok", aiText)
       /\ UNCHANGED <<sinkVars, serverVars, saveVars>>
    \/ /\ PanelShown /\ AcceptSuggestion(MaxTotal)
       /\ UNCHANGED <<sinkVars, serverVars, saveVars>>

SpecLedger == Init /\ [][NextLedger]_vars

\* the suggestion lifecycle with handleAcceptSuggestion and
\* handleDismissSuggestion called in any state, panel or no panel
NextHandlers ==
    \/ /\ EditorReady
       /\ UNCHANGED <<sinkVars, serverVars, saveVars>>
    \/ /\ Edit(Letters)
       /\ UNCHANGED <<sinkVars, serverVars, saveVars>>
    \/ /\ \E mode \in ClickedModes, sel \in Selections(doc) : CallBackend(mode, sel)
       /\ UNCHANGED <<sinkVars, serverVars, saveVars>>
    \/ /\ \E r \in inflight, outcome \in TransformOutcomes, aiText \in ResultTexts :
              /\ outcome # "ok" => aiText = <<>>
              /\ TransformResponse(r, outcome, aiText)
       /\ UNCHANGED <<sinkVars, serverVars, saveVars>>
    \/ /\ HandleAcceptSuggestion
       /\ UNCHANGED <<sinkVars, serverVars, saveVars>>
    \/ /\ HandleDismissSuggestion
       /\ UNCHANGED <<sinkVars, serverVars, saveVars>>

SpecHandlers == Init /\ [][NextHandlers]_vars

\* the payload builder over letters and blanks: the writer types and clicks
\* Rewrite with any selection, one request at a time
NextBuilder ==
    \/ /\ EditorReady
       /\ UNCHANGED <<sinkVars, serverVars, saveVars>>
    \/ /\ Edit(TypedChars)
       /\ UNCHANGED <<sinkVars, serverVars, saveVars>>
    \/ /\ \E sel \in Selections(doc) :
              /\ inflight = {}
              /\ CallBackend("rewrite", sel)
       /\ UNCHANGED <<sinkVars, serverVars, saveVars>>
    \/ /\ \E r \in inflight, aiText \in ResultTexts : TransformResponse(r, "ok", aiText)
       /\ UNCHANGED <<sinkVars, serverVars, saveVars>>

SpecBuilder == Init /\ [][NextBuilder]_vars

\* the payload builder over documents of several paragraphs: the writer
\* pastes paragraphs over the initial content, then clicks Rewrite with any
\* selection
NextContext ==
    \/ /\ EditorReady
       /\ UNCHANGED <<sinkVars, serverVars, saveVars>>
    \/ /\ \E n \in 1..MaxBlocks : \E blocks \in [1..n -> BlockTexts] :
              /\ inflight = {}
              /\ doc = InitialDoc
              /\ PasteBlocks(blocks)
       /\ UNCHANGED <<sinkVars, serverVars, saveVars>>
    \/ /\ \E sel \in Selections(doc) :
              /\ inflight = {}
              /\ CallBackend("rewrite", sel)
       /\ UNCHANGED <<sinkVars, serverVars, saveVars>>

SpecContext == Init /\ [][NextContext]_vars

\* every handler of the page in one run: the writer deletes text, asks for
\* one suggestion at a time and for feedback, one request at a time, with
\* the cursor at the start; the services answer or fail
NextWhole ==
    \/ /\ EditorReady
       /\ UNCHANGED <<sinkVars, serverVars, saveVars>>
    \/ /\ \E sel \in Selections(doc) : Backspace(sel)
       /\ UNCHANGED <<sinkVars, serverVars, saveVars>>
    \/ /\ \E sel \in LedgerSelections(doc) :
              /\ inflight = {}
              /\ aiSuggestion = NULL
              /\ CallBackend("rewrite", sel)
       /\ UNCHANGED <<sinkVars, serverVars, saveVars>>
    \/ /\ \E r \in inflight, outcome \in TransformOutcomes, aiText \in ResultTexts :
              /\ outcome # "ok" => aiText = <<>>
              /\ TransformResponse(r, outcome, aiText)
       /\ UNCHANGED <<sinkVars, serverVars, saveVars>>
    \/ /\ PanelShown /\ HandleAcceptSuggestion
       /\ UNCHANGED <<sinkVars, serverVars, saveVars>>
    \/ /\ PanelShown /\ HandleDismissSuggestion
       /\ UNCHANGED <<sinkVars, serverVars, saveVars>>
    \/ /\ fbInflight = {}
       /\ HandleGetFeedback("ruthless_reviewer", [from |-> 1, to |-> 1])
       /\ UNCHANGED <<sinkVars, serverVars, saveVars>>
    \/ /\ \E r \in fbInflight, outcome \in FeedbackOutcomes, batch \in Batches :
              /\ outcome # "ok" => batch = <<>>
              /\ FeedbackResponse(r, outcome, batch)
       /\ UNCHANGED <<sinkVars, serverVars, saveVars>>
    \/ /\ \E i \in 1..Len(personaComments) : HandleResolveComment(i)
       /\ UNCHANGED <<sinkVars, serverVars, saveVars>>
    \/ /\ \E i \in 1..Len(personaComments) : HandleHideComment(i)
       /\ UNCHANGED <<sinkVars, serverVars, saveVars>>
    \/ /\ \E i \in 1..Len(personaComments) : HandleExcerptClick(i)
       /\ UNCHANGED <<sinkVars, serverVars, saveVars>>

SpecWhole == Init /\ [][NextWhole]_vars

\* the event sink next to the suggestion lifecycle: the writer asks for a
\* rewrite of the whole text, one request at a time, and applies or
\* dismisses it, while the calls of logEvent go on
NextSink ==
    \/ /\ BootEffect
       /\ LogEmitted
       /\ UNCHANGED <<serverVars, saveVars>>
    \/ /\ EditorReady
       /\ LogEmitted
       /\ UNCHANGED <<serverVars, saveVars>>
    \/ /\ inflight = {}
       /\ CallBackend("rewrite", [from |-> 1, to |-> Len(doc) + 1])
       /\ LogEmitted
       /\ UNCHANGED <<serverVars, saveVars>>
    \/ /\ \E r \in inflight, outcome \in {"ok", "http_error"} :
              TransformResponse(r, outcome, IF outcome = "ok" THEN <<"b">> ELSE <<>>)
       /\ LogEmitted
       /\ UNCHANGED <<serverVars, saveVars>>
    \/ /\ PanelShown /\ HandleAcceptSuggestion
       /\ LogEmitted
       /\ UNCHANGED <<serverVars, saveVars>>
    \/ /\ PanelShown /\ HandleDismissSuggestion
       /\ LogEmitted
       /\ UNCHANGED <<serverVars, saveVars>>
    \/ /\ \E outcome \in SessionOutcomes : SessionStartResponse(outcome)
       /\ UNCHANGED <<serverVars, saveVars>>
    \/ /\ \E outcome \in LogOutcomes : LogPostResponse(outcome)
       /\ UNCHANGED <<serverVars, saveVars>>

SpecSink == Init /\ [][NextSink]_vars

\* the server's session and log routes, taking requests in any order and
\* with any body
NextServer ==
    \/ \E outcome \in DbOutcomes : SessionStart(outcome)
    \/ \E body \in LogBodies, outcome \in DbOutcomes : PostLog(body, outcome)
    \/ \E r \in handling, outcome \in DbOutcomes : CreateLog(r, outcome)

SpecServer == Init /\ [][NextServer]_vars

\* the save status: the writer edits the text and the title and clicks
\* Save, the timeouts fire, and the effect of EditorWithToolbar runs after
\* every render before anything else does
NextSave ==
    \/ /\ ~effectDue
       /\ EditorReady
       /\ StatusEdited
       /\ UNCHANGED <<sinkVars, serverVars>>
    \/ /\ ~effectDue
       /\ Edit(Letters)
       /\ StatusEdited
       /\ UNCHANGED <<sinkVars, serverVars>>
    \/ /\ ~effectDue
       /\ \E title \in Titles : TitleChange(title)
    \/ /\ ~effectDue
       /\ HandleManualSave
    \/ /\ ~effectDue
       /\ SaveTimeout
    \/ EffectRerun

SpecSave == Init /\ [][NextSave]_vars

\* the persona buttons: the writer clicks them with the cursor at the start,
\* and every request is answered with an array
NextPersona ==
    \/ /\ EditorReady
       /\ UNCHANGED <<sinkVars, serverVars, saveVars>>
    \/ /\ \E personaId \in ClickedPersonas :
              GetFeedback(personaId, [from |-> 1, to |-> 1], MaxPersonaRequests)
       /\ UNCHANGED <<sinkVars, serverVars, saveVars>>
    \/ /\ \E r \in fbInflight, batch \in Batches : FeedbackResponse(r, "ok", batch)
       /\ UNCHANGED <<sinkVars, serverVars, saveVars>>

SpecPersona == Init /\ [][NextPersona]_vars

\* the two service calls and their outcomes
NextService ==
    \/ /\ EditorReady
       /\ UNCHANGED <<sinkVars, serverVars, saveVars>>
    \/ /\ \E mode \in ClickedModes, sel \in Selections(doc) : CallBackend(mode, sel)
       /\ UNCHANGED <<sinkVars, serverVars, saveVars>>
    \/ /\ \E r \in inflight, outcome \in TransformOutcomes, aiText \in ResultTexts :
              /\ outcome # "ok" => aiText = <<>>
              /\ TransformResponse(r, outcome, aiText)
       /\ UNCHANGED <<sinkVars, serverVars, saveVars>>
    \/ /\ \E personaId \in ClickedPersonas, sel \in Selections(doc) :
              HandleGetFeedback(personaId, sel)
       /\ UNCHANGED <<sinkVars, serverVars, saveVars>>
    \/ /\ \E r \in fbInflight, outcome \in FeedbackOutcomes, batch \in Batches :
              /\ outcome # "ok" => batch = <<>>
              /\ FeedbackResponse(r, outcome, batch)
       /\ UNCHANGED <<sinkVars, serverVars, saveVars>>

SpecService == Init /\ [][NextService]_vars

----------------------------------------------------------------------------
(* Properties *)

Failures == {"http_error", "network_error", "bad_json"}

\* C1 as stated: after every document change and every apply, humanChars +
\* aiChars is the current length of the text and neither count is negative
C1_Conservation ==
    /\ humanChars + aiChars = Len(GetText(doc))
    /\ humanChars >= 0
    /\ aiChars >= 0

\* C1 as the code has it: humanChars is the length of the text less aiChars,
\* clamped at 0; neither count is negative; the two add up to the length of the
\* text as long as aiChars does not exceed it, and to aiChars when it does
C1_Reconciled ==
    /\ humanChars = Max(Len(GetText(doc)) - aiChars, 0)
    /\ humanChars >= 0
    /\ aiChars >= 0
    /\ aiChars <= Len(GetText(doc)) => humanChars + aiChars = Len(GetText(doc))
    /\ aiChars > Len(GetText(doc)) => humanChars + aiChars = aiChars

\* text was deleted after an apply, and less text is left than was applied
C1_Witness ==
    /\ lastOp.op = "documentChange"
    /\ Len(doc) < Len(lastOp.pre.doc)
    /\ aiChars > Len(GetText(doc))

\* C2: once a request sent while a suggestion was pending has completed, with
\* success or failure, that earlier suggestion is not the pending one
C2_SinglePending ==
    (lastOp.op = "transformResponse" /\ lastOp.prior # 0)
        => PendingRid # lastOp.prior

\* C3: a response to request A that arrives after a later request B was sent
\* is ignored: once both have been answered, the pending suggestion is not A's
C3_LastRequestWins ==
    (/\ lastOp.op = "transformResponse"
     /\ lastOp.outcome = "ok"
     /\ lastOp.pre.nextReq > lastOp.rid + 1
     /\ inflight = {})
        => PendingRid # lastOp.rid

\* C4: after handleAcceptSuggestion has run with a suggestion pending, the
\* text of the suggestion's range is replaced by the suggestion, aiChars has
\* grown by the length of the suggestion, and no suggestion is pending
C4_ApplyPostconditions ==
    lastOp.op = "accept" =>
        LET pre  == lastOp.pre
            sugg == pre.aiSuggestion
            from == Min(sugg.from, Len(pre.doc) + 1)
            to   == Min(sugg.to, Len(pre.doc) + 1)
        IN  /\ doc = SubSeq(pre.doc, 1, from - 1) \o sugg.suggestion
                         \o SubSeq(pre.doc, to, Len(pre.doc))
            /\ aiChars = pre.aiChars + Len(sugg.suggestion)
            /\ aiSuggestion = NULL

\* C5: over batches, resolves and hides, a hidden comment stays hidden, and a
\* comment becomes resolved only from open
C5_StatusMonotone ==
    \A i \in 1..Len(lastOp.pre.personaComments) :
        LET was == lastOp.pre.personaComments[i].status
            now == personaComments[i].status
        IN  /\ was = "hidden" => now = "hidden"
            /\ (now = "resolved" /\ was # "resolved") => was = "open"

\* C6: no two comments of the collection have the same id
C6_UniqueIds ==
    \A i, j \in 1..Len(personaComments) :
        i # j => personaComments[i].id # personaComments[j].id

\* C7: with humanChars + aiChars > 0, aiPercent + humanPercent is exactly 100
\* and each lies in 0..100; with a total of 0 both are 0
C7_PercentSum ==
    /\ totalChars > 0 => /\ aiPercent + humanPercent = 100
                         /\ aiPercent \in 0..100
                         /\ humanPercent \in 0..100
    /\ totalChars = 0 => aiPercent = 0 /\ humanPercent = 0

\* the two shares tie at a half: 1 character of 8 is the AI's
C7_Witness ==
    /\ lastOp.op = "accept"
    /\ totalChars = 8
    /\ aiChars = 1
    /\ aiPercent + humanPercent = 100

C9_NoPartialState ==
    /\ (lastOp.op = "transformResponse" /\ lastOp.outcome \in Failures) =>
           /\ aiSuggestion = lastOp.pre.aiSuggestion
           /\ personaComments = lastOp.pre.personaComments
           /\ nextReq = lastOp.pre.nextReq
           /\ nextFb = lastOp.pre.nextFb
           /\ \A r \in inflight : r.rid # lastOp.rid
           /\ loadingAction = "null"
    /\ (lastOp.op = "feedbackResponse" /\ lastOp.outcome \in Failures) =>
           /\ aiSuggestion = lastOp.pre.aiSuggestion
           /\ personaComments = lastOp.pre.personaComments
           /\ nextReq = lastOp.pre.nextReq
           /\ nextFb = lastOp.pre.nextFb
           /\ \A r \in fbInflight : r.rid # lastOp.rid
           /\ personaLoadingId = "null"

\* a transform call has failed where comments exist and a feedback call is
\* still awaited
C9_Witness ==
    /\ lastOp.op = "transformResponse"
    /\ lastOp.outcome \in Failures
    /\ Len(personaComments) > 0
    /\ fbInflight # {}

\* C10: a transform request made while the editor instance is unavailable
\* sends nothing, stores no suggestion, shows the not-ready message and ends
\* with loadingAction null
C10_NotReady ==
    (lastOp.op = "callBackend" /\ ~editorInstance) =>
        /\ inflight = {}
        /\ nextReq = lastOp.pre.nextReq
        /\ \A k \in 1..Len(emitted) : emitted[k] # "tool_request"
        /\ aiSuggestion = NULL
        /\ improveText = "editor_not_ready"
        /\ loadingAction = "null"

\* a mode button was clicked before the editor existed
C10_Witness ==
    /\ lastOp.op = "callBackend"
    /\ ~editorInstance
    /\ emitted = <<"tool_click", "tool_error">>

\* C11: when the selection and the whole document are empty or whitespace-only,
\* handleGetFeedback sends no feedback request, appends no comment, leaves
\* the remembered feedback selection as it was, and shows the "write something
\* first" message
C11_EmptyInput ==
    (/\ lastOp.op = "getFeedback"
     /\ editorInstance
     /\ \A k \in 1..Len(doc) : doc[k] \in {" ", "\n"})
        => /\ nextFb = lastOp.pre.nextFb
           /\ \A r \in fbInflight : r.rid < lastOp.pre.nextFb
           /\ \A k \in 1..Len(emitted) : emitted[k] # "persona_feedback_request"
           /\ personaComments = lastOp.pre.personaComments
           /\ lastFeedbackSelection = lastOp.pre.lastFeedbackSelection
           /\ improveText = "write_something_first"

\* feedback was asked for on a text of blanks, with comments and a remembered
\* selection from an earlier request
C11_Witness ==
    /\ lastOp.op = "getFeedback"
    /\ editorInstance
    /\ Len(doc) > 0
    /\ \A k \in 1..Len(doc) : doc[k] = " "
    /\ lastFeedbackSelection # NULL
    /\ Len(personaComments) > 0

\* C12: a successful feedback response whose body is no JSON array adds no
\* comment, leaves the comments there are as they were, and is no error: no
\* error event is emitted and the message shown does not change
C12_NotAnArray ==
    (lastOp.op = "feedbackResponse" /\ lastOp.outcome = "not_array")
        => /\ personaComments = lastOp.pre.personaComments
           /\ \A k \in 1..Len(emitted) : emitted[k] # "persona_feedback_error"
           /\ emitted = <<"persona_feedback_success", "persona_feedback_received">>
           /\ improveText = lastOp.pre.improveText

\* a body that is no array has arrived where comments exist
C12_Witness ==
    /\ lastOp.op = "feedbackResponse"
    /\ lastOp.outcome = "not_array"
    /\ Len(personaComments) > 0

\* C13: the comments are append-only: a batch is appended after the comments
\* there are; no handler removes a comment or changes the id, persona,
\* excerpt, comment or suggestion of one, so the length never decreases and
\* hidden comments stay; only a feedback response changes the length
C13_AppendOnly ==
    LET was == lastOp.pre.personaComments
    IN  /\ Len(personaComments) >= Len(was)
        /\ \A i \in 1..Len(was) :
               /\ personaComments[i].id = was[i].id
               /\ personaComments[i].persona = was[i].persona
               /\ personaComments[i].excerpt = was[i].excerpt
               /\ personaComments[i].comment = was[i].comment
               /\ personaComments[i].suggestion = was[i].suggestion
        /\ \A i \in (Len(was) + 1)..Len(personaComments) :
               personaComments[i].status = "open"
        /\ lastOp.op # "feedbackResponse" => Len(personaComments) = Len(was)

\* a batch has been appended after a hidden comment
C13_Witness ==
    /\ lastOp.op = "feedbackResponse"
    /\ lastOp.outcome = "ok"
    /\ Len(lastOp.pre.personaComments) = 1
    /\ lastOp.pre.personaComments[1].status = "hidden"
    /\ Len(personaComments) = 2
    /\ personaComments[1].status = "hidden"

\* C14 as stated: with a selection that is empty or blank in a text that is
\* not, handleGetFeedback sends the whole text as the passage and remembers
\* the range (1, length of the text); with a selection that is not blank it
\* remembers the selection's (from, to)
C14_FallbackToLength ==
    (/\ lastOp.op = "getFeedback"
     /\ editorInstance
     /\ \E k \in 1..Len(doc) : doc[k] \notin {" ", "\n"})
        => LET sel   == lastOp.sel
               blank == \A k \in sel.from..(sel.to - 1) : doc[k] \in {" ", "\n"}
           IN  /\ blank => /\ \E r \in fbInflight : r.rid = lastOp.rid
                           /\ lastOp.sent.text = Trim(GetText(doc))
                           /\ lastFeedbackSelection =
                                 [from |-> 1, to |-> Len(GetText(doc))]
               /\ ~blank => lastFeedbackSelection = sel

\* C14 as the code has it: the range remembered with the whole text is
\* (1, doc.content.size), and the content size of a text block of n characters
\* is n + 2: two more than the length of its text, one more than the last
\* cursor position
C14_FallbackToContentSize ==
    (/\ lastOp.op = "getFeedback"
     /\ editorInstance
     /\ \E k \in 1..Len(doc) : doc[k] \notin {" ", "\n"})
        => LET sel   == lastOp.sel
               blank == \A k \in sel.from..(sel.to - 1) : doc[k] \in {" ", "\n"}
           IN  /\ blank => /\ \E r \in fbInflight : r.rid = lastOp.rid
                           /\ lastOp.sent.text = Trim(GetText(doc))
                           /\ lastFeedbackSelection =
                                 [from |-> 1, to |-> Len(GetText(doc)) + 2]
               /\ ~blank => lastFeedbackSelection = sel

\* feedback was asked for with the cursor in a text of two characters
C14_Witness ==
    /\ lastOp.op = "getFeedback"
    /\ Len(doc) = 2
    /\ doc[1] = "a"
    /\ lastOp.sel = [from |-> 2, to |-> 2]
    /\ lastFeedbackSelection = [from |-> 1, to |-> 4]

\* C15: a click on the excerpt of a comment selects the range captured when
\* the feedback request that produced the comment was made, also after later
\* feedback requests with another selection
C15_BoundToBatch ==
    (lastOp.op = "excerptClick" /\ lastOp.sel # NULL)
        => lastOp.sel = capturedRange[lastOp.rid]

\* C16: handleDismissSuggestion with a suggestion pending clears the
\* suggestion, emits the dismissed event, and leaves the text, aiChars and
\* humanChars as they were
C16_DismissFrame ==
    (lastOp.op = "dismiss" /\ lastOp.pre.aiSuggestion # NULL)
        => /\ aiSuggestion = NULL
           /\ emitted = <<"dismiss_suggestion">>
           /\ doc = lastOp.pre.doc
           /\ aiChars = lastOp.pre.aiChars
           /\ humanChars = lastOp.pre.humanChars

\* a suggestion of two characters was dismissed after another had been applied
C16_Witness ==
    /\ lastOp.op = "dismiss"
    /\ lastOp.pre.aiSuggestion # NULL
    /\ Len(lastOp.pre.aiSuggestion.suggestion) = 2
    /\ aiChars > 0
    /\ Len(doc) > 0

C18_ApplyArithmetic ==
    lastOp.op = "accept" =>
        LET sugg == lastOp.pre.aiSuggestion
            n    == Len(GetText(lastOp.pre.doc))
            k    == sugg.to - sugg.from
            s    == Len(sugg.suggestion)
        IN  /\ Len(GetText(doc)) = n - k + s
            /\ aiChars = lastOp.pre.aiChars + s
            /\ humanChars = Max(Len(GetText(doc)) - aiChars, 0)

\* C19: no handler lowers aiChars; a document-change notification leaves
\* aiChars as it is and sets humanChars to max(length of the text - aiChars, 0)
C19_AiNeverDecremented ==
    /\ aiChars >= lastOp.pre.aiChars
    /\ lastOp.op \in {"documentChange", "editorReady"} =>
           /\ aiChars = lastOp.pre.aiChars
           /\ humanChars = Max(Len(GetText(doc)) - lastOp.pre.aiChars, 0)

\* text was deleted after an apply, with comments in the collection
C19_Witness ==
    /\ lastOp.op = "documentChange"
    /\ lastOp.pre.aiChars > 0
    /\ Len(doc) < Len(lastOp.pre.doc)
    /\ Len(personaComments) > 0

\* C20: the payload built for a request carries the text of the selection
\* when that text has a character that is not a blank, the whole text of the
\* document otherwise; its (from, to) is the selection as it was, empty or
\* not, and its fullText is the whole text of the document
C20_SelectionFallback ==
    (lastOp.op = "callBackend" /\ lastOp.outcome = "sent") =>
        LET p        == lastOp.sent
            d        == lastOp.pre.doc
            s        == lastOp.sel
            text     == SubSeq(d, s.from, s.to - 1)
            nonBlank == \E i \in 1..Len(text) : text[i] \notin {" ", "\n"}
        IN  /\ p.selectedText = IF nonBlank THEN text ELSE d
            /\ p.from = s.from
            /\ p.to = s.to
            /\ p.fullText = d

\* a request built from a selection of blanks only, in a document with a letter
C20_Witness ==
    /\ lastOp.op = "callBackend"
    /\ lastOp.outcome = "sent"
    /\ lastOp.sel.from < lastOp.sel.to
    /\ \A i \in lastOp.sel.from..(lastOp.sel.to - 1) : lastOp.pre.doc[i] = " "
    /\ \E i \in 1..Len(lastOp.pre.doc) : lastOp.pre.doc[i] # " "
    /\ lastOp.sent.selectedText = lastOp.pre.doc

\* C21: with fullText split into paragraphs on blank lines, contextBefore and
\* contextAfter of the payload are the paragraphs just before and just after
\* the first paragraph that contains the trimmed selectedText, empty when
\* that paragraph is the first or the last, both empty when no paragraph
\* contains it; "a", "b", "ab" with "b" selected gives "a" and "ab"
C21_Context ==
    (lastOp.op = "callBackend" /\ lastOp.outcome = "sent") =>
        LET p        == lastOp.sent
            P        == Paragraphs(p.fullText)
            t        == Trim(p.selectedText)
            has(i)   == \E j \in 1..(Len(P[i]) - Len(t) + 1) :
                            \A k \in 1..Len(t) : P[i][j + k - 1] = t[k]
            first    == {i \in 1..Len(P) : has(i) /\ \A j \in 1..(i - 1) : ~has(j)}
        IN  /\ first = {} => p.contextBefore = <<>> /\ p.contextAfter = <<>>
            /\ \A i \in first :
                   /\ p.contextBefore = IF i = 1 THEN <<>> ELSE P[i - 1]
                   /\ p.contextAfter = IF i = Len(P) THEN <<>> ELSE P[i + 1]
            /\ (/\ p.fullText = <<"a", "\n", "\n", "b", "\n", "\n", "a", "b">>
                /\ p.selectedText = <<"b">>) =>
                   /\ p.contextBefore = <<"a">>
                   /\ p.contextAfter = <<"a", "b">>

\* the middle paragraph of three selected, its neighbours sent as context
C21_Witness ==
    /\ lastOp.op = "callBackend"
    /\ lastOp.outcome = "sent"
    /\ lastOp.sent.fullText = <<"a", "\n", "\n", "b", "\n", "\n", "a", "b">>
    /\ lastOp.sent.selectedText = <<"b">>
    /\ lastOp.sel.from < lastOp.sel.to
    /\ lastOp.sent.contextBefore = <<"a">>
    /\ lastOp.sent.contextAfter = <<"a", "b">>

\* C22 as stated: no document-change notification runs between the range
\* replacement and the aiChars update of an apply, so humanChars is never
\* reconciled against the new document with the old aiChars
C22_NoNotificationInside ==
    (lastOp.op = "accept" /\ lastOp.outcome = "ok") => ~lastOp.notified

\* C22: an apply has no suspension point; the document-change notification
\* that runs inside it reconciles humanChars with the old aiChars, and that
\* value is overwritten before the handler ends: the state after the apply
\* has aiChars raised by the suggestion's length and humanChars reconciled
\* with the raised count
C22_NoIntermediateState ==
    (lastOp.op = "accept" /\ lastOp.outcome = "ok") =>
        /\ aiChars = lastOp.pre.aiChars + Len(lastOp.pre.aiSuggestion.suggestion)
        /\ humanChars = Max(Len(GetText(doc)) - aiChars, 0)
        /\ aiSuggestion = NULL

\* an apply during which the notification set another value than the final one
C22_Witness ==
    /\ lastOp.op = "accept"
    /\ lastOp.outcome = "ok"
    /\ lastOp.notified
    /\ lastOp.during # humanChars

\* C23: the promise of logEvent never rejects, whether the session start
\* fails, its response lacks an id or the post of the event fails; and a step
\* of logEvent changes nothing of the controllers' state
C23_FireAndForget ==
    lastOp.op = "logEvent" =>
        /\ lastOp.outcome # "rejected"
        /\ doc = lastOp.pre.doc
        /\ humanChars = lastOp.pre.humanChars
        /\ aiChars = lastOp.pre.aiChars
        /\ aiSuggestion = lastOp.pre.aiSuggestion
        /\ improveText = lastOp.pre.improveText
        /\ loadingAction = lastOp.pre.loadingAction
        /\ nextReq = lastOp.pre.nextReq
        /\ personaComments = lastOp.pre.personaComments

\* a logEvent call ended on a session response without an id while a
\* suggestion was pending
C23_Witness ==
    /\ lastOp.op = "logEvent"
    /\ lastOp.outcome = "resolved"
    /\ lastOp.sent = "missing_id"
    /\ aiSuggestion # NULL

\* C24: a transform request logs its start and, once answered, its success
\* or its error and not the other; a completed apply logs one
\* accept_suggestion with the mode and the lengths of original and
\* suggestion; a dismiss of a pending suggestion logs one dismiss_suggestion;
\* a resolve or a hide logs one comment-status event; a feedback request that
\* is sent logs the request and, once answered, its success or its error
C24_TriggerPoints ==
    LET count(e) == Cardinality({i \in 1..Len(emitted) : emitted[i] = e})
    IN  /\ lastOp.op = "callBackend" =>
               /\ emitted[1] = "tool_click"
               /\ lastOp.outcome = "sent" => emitted[2] = "tool_request"
               /\ lastOp.outcome = "not_ready" => emitted[2] = "tool_error"
        /\ lastOp.op = "transformResponse" =>
               IF lastOp.outcome = "ok"
               THEN count("tool_response") = 1 /\ count("tool_error") = 0
               ELSE count("tool_response") = 0 /\ count("tool_error") >= 1
        /\ (lastOp.op = "accept" /\ lastOp.outcome = "ok") =>
               /\ count("accept_suggestion") = 1
               /\ lastOp.sent.toolName = lastOp.pre.aiSuggestion.mode
               /\ lastOp.sent.originalLength = Len(lastOp.pre.aiSuggestion.original)
               /\ lastOp.sent.suggestionLength =
                      Len(lastOp.pre.aiSuggestion.suggestion)
        /\ (lastOp.op = "dismiss" /\ lastOp.pre.aiSuggestion # NULL) =>
               count("dismiss_suggestion") = 1
        /\ lastOp.op = "resolve" => emitted = <<"persona_mark_resolved">>
        /\ lastOp.op = "hide" => emitted = <<"persona_hide_comment">>
        /\ (lastOp.op = "getFeedback" /\ lastOp.outcome = "sent") =>
               count("persona_feedback_request") = 1
        /\ lastOp.op = "feedbackResponse" =>
               IF lastOp.outcome \in {"ok", "not_array"}
               THEN /\ count("persona_feedback_success") = 1
                    /\ count("persona_feedback_error") = 0
               ELSE /\ count("persona_feedback_success") = 0
                    /\ count("persona_feedback_error") = 1

\* a suggestion applied with comments in the collection, its event logged
\* after the editor's own
C24_Witness ==
    /\ lastOp.op = "accept"
    /\ lastOp.outcome = "ok"
    /\ emitted = <<"editor_change", "accept_suggestion">>
    /\ lastOp.sent.suggestionLength > 0
    /\ Len(personaComments) > 0

\* C25: nothing keeps two feedback requests of one persona from being in
\* flight together, and the answer to each is appended whole, whatever the
\* collection holds already: the collection grows by the length of the
\* answer and its new elements carry the answer's ids
C25_BothBatchesAppended ==
    (lastOp.op = "feedbackResponse" /\ lastOp.outcome = "ok") =>
        LET prev  == lastOp.pre.personaComments
            batch == lastOp.sent.batch
        IN  /\ Len(personaComments) = Len(prev) + Len(batch)
            /\ \A i \in 1..Len(prev) : personaComments[i] = prev[i]
            /\ \A i \in 1..Len(batch) :
                   /\ personaComments[Len(prev) + i].persona = lastOp.sent.persona
                   /\ batch[i].id # ABSENT =>
                          personaComments[Len(prev) + i].id = <<batch[i].id>>

\* the first request sent is answered last: the collection already holds a
\* comment of the same persona with the same id, from a request sent and
\* answered while the first was in flight, and the same comment is appended
\* again
C25_Witness ==
    /\ lastOp.op = "feedbackResponse"
    /\ lastOp.outcome = "ok"
    /\ lastOp.rid = 1
    /\ Len(lastOp.sent.batch) > 0
    /\ \E i \in 1..Len(lastOp.pre.personaComments) :
           /\ lastOp.pre.personaComments[i].persona = lastOp.sent.persona
           /\ lastOp.pre.personaComments[i].id =
                  personaComments[Len(personaComments)].id

\* C26 as stated: without a remembered range, or without an editor,
\* handleExcerptClick sets no selection, changes no state and logs nothing;
\* otherwise the selection it sets is exactly the remembered (from, to)
C26_ExactRange ==
    lastOp.op = "excerptClick" =>
        /\ doc = lastOp.pre.doc
        /\ personaComments = lastOp.pre.personaComments
        /\ lastFeedbackSelection = lastOp.pre.lastFeedbackSelection
        /\ humanChars = lastOp.pre.humanChars
        /\ aiChars = lastOp.pre.aiChars
        /\ IF ~editorInstance \/ lastFeedbackSelection = NULL
           THEN lastOp.selected = NULL /\ emitted = <<>>
           ELSE lastOp.selected = lastFeedbackSelection

\* C26: without a remembered range, or without an editor, handleExcerptClick
\* sets no selection, changes no state and logs nothing; otherwise it asks
\* for the remembered (from, to) and the selection set has both ends brought
\* into the text as it is now: it is the remembered range when that range
\* lies within the text
C26_ClampedRange ==
    lastOp.op = "excerptClick" =>
        /\ doc = lastOp.pre.doc
        /\ personaComments = lastOp.pre.personaComments
        /\ lastFeedbackSelection = lastOp.pre.lastFeedbackSelection
        /\ humanChars = lastOp.pre.humanChars
        /\ aiChars = lastOp.pre.aiChars
        /\ IF ~editorInstance \/ lastFeedbackSelection = NULL
           THEN lastOp.selected = NULL /\ emitted = <<>>
           ELSE /\ lastOp.selected.from =
                       Min(Max(lastFeedbackSelection.from, 1), Len(doc) + 1)
                /\ lastOp.selected.to =
                       Min(Max(lastFeedbackSelection.to, 1), Len(doc) + 1)
                /\ lastFeedbackSelection.to <= Len(doc) + 1 =>
                       lastOp.selected = lastFeedbackSelection
                /\ emitted = <<"persona_highlight_excerpt">>

\* the excerpt was clicked after text of the remembered range was deleted
C26_Witness ==
    /\ lastOp.op = "excerptClick"
    /\ lastOp.outcome = "selected"
    /\ lastFeedbackSelection = [from |-> 2, to |-> 3]
    /\ Len(doc) = 0
    /\ lastOp.selected = [from |-> 1, to |-> 1]

\* C27: a suggestion that was pending when a new transform request was sent
\* can no longer be applied: handleAcceptSuggestion run while that request is
\* in flight leaves the text, aiChars and humanChars as they were
C27_DiscardedOnRequest ==
    (/\ lastOp.op = "accept"
     /\ lastOp.pre.aiSuggestion # NULL
     /\ \E r \in inflight : r.prior = lastOp.pre.aiSuggestion.rid)
        => /\ doc = lastOp.pre.doc
           /\ aiChars = lastOp.pre.aiChars
           /\ humanChars = lastOp.pre.humanChars

\* C28: the range handleAcceptSuggestion gives to deleteRange is the
\* selection read when the request was made, whatever was edited or selected
\* since; where that range lies within the text, the text of the range as it
\* is now is what the suggestion replaces
C28_CapturedRange ==
    (lastOp.op = "accept" /\ lastOp.outcome \in {"ok", "range_error"}) =>
        /\ lastOp.sel = lastOp.pre.aiSuggestion.read
        /\ (lastOp.outcome = "ok" /\ lastOp.sel.to <= Len(lastOp.pre.doc) + 1) =>
               doc = SubSeq(lastOp.pre.doc, 1, lastOp.sel.from - 1)
                     \o lastOp.pre.aiSuggestion.suggestion
                     \o SubSeq(lastOp.pre.doc, lastOp.sel.to, Len(lastOp.pre.doc))

\* a suggestion applied over a range whose text is no longer the text the
\* request was made for
C28_Witness ==
    /\ lastOp.op = "accept"
    /\ lastOp.outcome = "ok"
    /\ lastOp.sel.from < lastOp.sel.to
    /\ lastOp.sel.to <= Len(lastOp.pre.doc) + 1
    /\ TextBetween(lastOp.pre.doc, lastOp.sel.from, lastOp.sel.to)
           # lastOp.pre.aiSuggestion.original

\* C29: handleResolveComment or handleHideComment on one comment card leaves
\* the status of every other comment of the collection as it was
C29_OnlyTheTarget ==
    lastOp.op \in {"resolve", "hide"} =>
        \A j \in 1..Len(personaComments) :
            j # lastOp.rid =>
                personaComments[j].status = lastOp.pre.personaComments[j].status

\* C30: while a transform request is awaiting its response loadingAction is
\* not null
C30_LoadingTracksInFlight == inflight # {} => loadingAction # "null"

\* C31: while a feedback request of a persona is awaiting its response
\* personaLoadingId is that persona
C31_PersonaLoadingTracksInFlight ==
    \A r \in fbInflight : personaLoadingId = r.persona

\* C32: a feedback operation (request, response, resolve, hide, excerpt
\* click) leaves the pending suggestion, aiChars and humanChars as they were;
\* a transform operation (request, response, apply, dismiss) leaves the
\* comment collection and the remembered feedback selection as they were
C32_Independent ==
    /\ lastOp.op \in {"getFeedback", "feedbackResponse", "resolve", "hide",
                      "excerptClick"} =>
           /\ aiSuggestion = lastOp.pre.aiSuggestion
           /\ aiChars = lastOp.pre.aiChars
           /\ humanChars = lastOp.pre.humanChars
    /\ lastOp.op \in {"callBackend", "transformResponse", "accept", "dismiss"} =>
           /\ personaComments = lastOp.pre.personaComments
           /\ lastFeedbackSelection = lastOp.pre.lastFeedbackSelection

\* a suggestion applied while comments are in the collection, after an
\* earlier apply
C32_Witness ==
    /\ lastOp.op = "accept"
    /\ lastOp.outcome = "ok"
    /\ lastOp.pre.aiChars > 0
    /\ Len(personaComments) > 0
    /\ lastFeedbackSelection # NULL

\* C33: no suggestion is applied twice, and aiChars is the sum of the lengths
\* of the suggestions applied so far
C33_CountedOnce ==
    LET SumTo[n \in 0..Len(applied)] ==
            IF n = 0 THEN 0 ELSE SumTo[n - 1] + applied[n].length
    IN  /\ \A i, j \in 1..Len(applied) : applied[i].rid = applied[j].rid => i = j
        /\ aiChars = SumTo[Len(applied)]

\* two suggestions have been applied, the second after the first
C33_Witness ==
    /\ lastOp.op = "accept"
    /\ lastOp.outcome = "ok"
    /\ Len(applied) = 2
    /\ applied[1].length > 0
    /\ applied[2].length > 0

\* C34: a call of callBackend logs exactly one of tool_response and
\* tool_error: one tool_error when the editor is not ready, and one event of
\* the two once its request is answered; tool_response comes only from a call
\* that logged tool_request
C34_OneTerminalEvent ==
    LET count(e) == Cardinality({i \in 1..Len(emitted) : emitted[i] = e})
    IN  /\ (lastOp.op = "callBackend" /\ lastOp.outcome = "not_ready") =>
               count("tool_response") + count("tool_error") = 1
        /\ (lastOp.op = "callBackend" /\ lastOp.outcome = "sent") =>
               /\ count("tool_request") = 1
               /\ count("tool_response") + count("tool_error") = 0
        /\ lastOp.op = "transformResponse" =>
               /\ count("tool_response") + count("tool_error") = 1
               /\ count("tool_response") = 1 => lastOp.rid < lastOp.pre.nextReq

\* C35: the logEvent calls started before the first session-start response
\* arrives (the two of the boot effect) issue one POST /api/session/start
\* between them; all events posted carry the same sessionId; and an event
\* logged while an id is cached carries that id
C35_OneSession ==
    /\ lastOp.op = "boot" => logCalls.session = 1
    /\ Cardinality(logCalls.carried) <= 1
    /\ (lastOp.op # "logEvent" /\ emitted # <<>> /\ sessionId # 0) =>
           sessionId \in logCalls.carried

\* C36: a POST /api/log whose body lacks sessionId or eventType is answered
\* 400 and leaves the tables as they were, and no other body is answered 400;
\* every LogEvent row stored, and every event about to be created, names a
\* Session row that exists
C36_LogIntegrity ==
    /\ lastOp.op = "postLog" =>
           /\ lastOp.outcome = "400" <=>
                  (lastOp.sent.body.sessionId = 0 \/ lastOp.sent.body.eventType = "")
           /\ lastOp.outcome = "400" =>
                  /\ sessions = lastOp.sent.stored.sessions
                  /\ logEvents = lastOp.sent.stored.logEvents
                  /\ handling = lastOp.sent.stored.handling
    /\ \A e \in logEvents : e.sessionId \in sessions
    /\ \A r \in handling : r.sessionId \in sessions

\* an event was stored under a session id that no session start had created:
\* the log route made the row
C36_Witness ==
    /\ lastOp.op = "createLog"
    /\ lastOp.outcome = "200"
    /\ Cardinality(sessions) = 1
    /\ \E e \in logEvents : e.id = lastOp.rid /\ e.id = 1

\* C37: a save click leaves the status saving; a change of the text or of
\* the title leaves it editing; and a status that is saved stays saved
\* through every step that is neither such a change nor a save click
C37_SaveLifecycle ==
    /\ lastOp.op = "manualSave" => saveStatus = "saving"
    /\ lastOp.op \in {"editorReady", "documentChange", "titleChange"} =>
           saveStatus = "editing"
    /\ (/\ lastOp.pre.saveStatus = "saved"
        /\ lastOp.op \notin {"init", "editorReady", "documentChange",
                              "titleChange", "manualSave"}) =>
           saveStatus = "saved"

====
